---- MODULE Spec2Model ----
(***************************************************************************)
(* diskinfo-webui: the disk usage collection of the repository's three     *)
(* server programs and the byte-count formatter they share.                *)
(*                                                                         *)
(*   "main.go"   src/main.go             FetchDiskInfo / IndexHandler      *)
(*   "part_001"  src/unnamed/part_001    gatherDiskInfo(ignoreTypes)       *)
(*   "part_000"  src/unnamed/part_000    gatherDiskInfo(ignoreTypes,       *)
(*                                       hostProc), lines 266-316          *)
(*                                                                         *)
(* The operating system (gopsutil's disk.Partitions and disk.Usage) is the *)
(* environment: a partition list, an enumeration error flag and a table    *)
(* of statfs answers per path.                                             *)
(***************************************************************************)
EXTENDS Integers, Sequences, FiniteSets, TLC

VARIABLES
    impl,         \* which of the three programs is running
    ignoreTypes,  \* part_000 / part_001: the ignore-type slice handed to handler()
    ignoreDisks,  \* main.go: package variable ignoreDisks
    hostProc,     \* part_000: the host-proc prefix handed to handler()
    partitions,   \* OS: what disk.Partitions returns when it succeeds
    partErr,      \* OS: disk.Partitions fails
    usage,        \* OS: path -> statfs answer
    diskInfos,    \* main.go: package variable diskInfos, its three words
    heap,         \* main.go: the arrays that appends allocated
    wild,         \* main.go: a record was stored behind the end of an array
    resp,         \* what the last call of handler() handed to the template
    queries,      \* the paths that call passed to disk.Usage
    reqs,         \* per request goroutine, its position and locals
    hrSize,       \* formatter harness: the byte count
    hrOut         \* formatter harness: the string humanReadableSize returned

vars == <<impl, ignoreTypes, ignoreDisks, hostProc, partitions, partErr, usage,
          diskInfos, heap, wild, resp, queries, reqs, hrSize, hrOut>>

(***************************************************************************)
(* Bounds of the model.                                                    *)
(***************************************************************************)
MaxParts == 2     \* longest partition list the OS returns
MaxBlocks == 2    \* largest filesystem, in statfs blocks
NumReqs == 2      \* request goroutines of the concurrent server

(***************************************************************************)
(* Strings: path/filepath.                                                 *)
(***************************************************************************)
RECURSIVE Squeeze(_)
\* Clean's rule 1: replace multiple separators with a single one.
Squeeze(s) ==
    IF Len(s) < 2 THEN s
    ELSE IF SubSeq(s, 1, 1) = "/" /\ SubSeq(s, 2, 2) = "/"
         THEN Squeeze(SubSeq(s, 2, Len(s)))
         ELSE SubSeq(s, 1, 1) \o Squeeze(SubSeq(s, 2, Len(s)))

\* filepath.Clean on paths without "." and ".." elements (the model has none):
\* an empty path is ".", separators are squeezed, a trailing separator is
\* dropped unless the path is the root.
Clean(path) ==
    LET s == Squeeze(path) IN
    IF s = "" THEN "."
    ELSE IF Len(s) > 1 /\ SubSeq(s, Len(s), Len(s)) = "/"
         THEN SubSeq(s, 1, Len(s) - 1)
         ELSE s

\* filepath.Join(a, b): empty elements are ignored, the rest joined with a
\* separator and cleaned; all elements empty gives "".
Join(a, b) ==
    IF a = "" /\ b = "" THEN ""
    ELSE IF a = "" THEN Clean(b)
    ELSE IF b = "" THEN Clean(a)
    ELSE Clean(a \o "/" \o b)

(***************************************************************************)
(* The operating system as gopsutil reports it.                            *)
(***************************************************************************)
Bsize == 512      \* statfs block size of every modelled filesystem

Devices == <<"/dev/sda1", "/dev/sdb1", "/dev/sdc1">>
Mountpoints == {"", "/", "/mnt"}
Fstypes == {"ext4", "tmpfs"}
HostProcs == {"/proc", "/"}
IgnoreLists == {<<>>, <<"tmpfs">>}

\* Every path a program of the model can hand to disk.Usage.
Paths == {"/", "/mnt", "/proc", "/proc/mnt"}

\* disk.PartitionStat
Partition(dev, mp, ty) == [Device |-> dev, Mountpoint |-> mp, Fstype |-> ty]

\* The partition lists disk.Partitions can return: the i-th entry is the
\* i-th device, so a record is traced to its partition by its Device.
PartitionLists ==
    UNION { { [i \in 1..n |-> Partition(Devices[i], mp[i], ty[i])] :
                mp \in [1..n -> Mountpoints], ty \in [1..n -> Fstypes] } :
            n \in 0..(IF MaxParts < Len(Devices) THEN MaxParts ELSE Len(Devices)) }

\* A statfs answer: ENOENT and the like, or the block counts of a
\* filesystem: a pseudo filesystem without blocks, or a disk of MaxBlocks
\* blocks of which Bfree are free and Bavail <= Bfree are free to
\* unprivileged users (at most one block is reserved).
StatfsFail == [ok |-> FALSE, Blocks |-> 0, Bfree |-> 0, Bavail |-> 0]
StatfsOk ==
    { [ok |-> TRUE, Blocks |-> b, Bfree |-> f, Bavail |-> a] :
        b \in {0, MaxBlocks}, f \in 0..MaxBlocks, a \in 0..MaxBlocks }
StatfsAnswers ==
    {StatfsFail}
    \cup { s \in StatfsOk : /\ s.Bfree <= s.Blocks
                            /\ s.Bavail <= s.Bfree
                            /\ s.Bfree - s.Bavail <= 1 }

\* disk.Usage of gopsutil on a successful statfs: Total, Free and Used in
\* bytes, and UsedPercent = Used / (Used + Free) * 100 (0 when Used + Free
\* is 0).  A float64 is kept as the exact fraction <<numerator, denominator>>.
UsageStat(st) ==
    LET total == st.Blocks * Bsize
        free  == st.Bavail * Bsize
        used  == (st.Blocks - st.Bfree) * Bsize
    IN [Total |-> total, Used |-> used, Free |-> free,
        UsedPercent |-> IF used + free = 0 THEN <<0, 1>>
                        ELSE <<100 * used, used + free>>]

\* disk.Usage(path): (nil, err) when statfs fails, as it does for the empty
\* path and for every path that does not exist; (*UsageStat, nil) otherwise.
Usage(tbl, path) ==
    IF path \in DOMAIN tbl /\ tbl[path].ok
    THEN [err |-> FALSE, stat |-> UsageStat(tbl[path])]
    ELSE [err |-> TRUE, stat |-> UsageStat(StatfsFail)]

(***************************************************************************)
(* Byte counts.  A uint64 is kept as its seven base-1024 digits, least     *)
(* significant first (six digits of ten bits and a top digit of four), so  *)
(* that the whole 64-bit range is computed exactly.                        *)
(***************************************************************************)
unit == 1024      \* const unit = 1024

\* The uint64 of a small natural number (below 2^31).
U64(n) ==
    <<n % unit, (n \div unit) % unit, (n \div (unit * unit)) % unit,
      n \div (unit * unit * unit), 0, 0, 0>>

\* size < unit
BelowUnit(x) == \A i \in 2..7 : x[i] = 0

\* n / unit on a uint64
DivUnit(x) == [i \in 1..7 |-> IF i < 7 THEN x[i + 1] ELSE 0]

\* div * unit on an int64: the bits shifted out of the 64 are lost
\* (a top digit of 8 or more is the sign bit set).
MulUnit(d) == [i \in 1..7 |-> IF i = 1 THEN 0 ELSE IF i < 7 THEN d[i - 1] ELSE d[6] % 16]

\* The number of bits of a digit.
RECURSIVE BitLen(_)
BitLen(d) == IF d = 0 THEN 0 ELSE 1 + BitLen(d \div 2)

\* Index of the most significant non-zero digit (1 for zero).
TopDigit(x) ==
    IF \A i \in 1..7 : x[i] = 0 THEN 1
    ELSE CHOOSE i \in 1..7 : x[i] # 0 /\ \A j \in (i + 1)..7 : x[j] = 0

RECURSIVE Pow2(_)
Pow2(e) == IF e = 0 THEN 1 ELSE 2 * Pow2(e - 1)

\* Carry propagation from digit i upwards; the top digit keeps what is left
\* (float64(2^64 - 1) is 2^64, a top digit of 16).
RECURSIVE Carry(_, _)
Carry(x, i) ==
    IF i >= 7 \/ x[i] < unit THEN x
    ELSE Carry([x EXCEPT ![i] = x[i] % unit, ![i + 1] = x[i + 1] + x[i] \div unit], i + 1)

\* float64(size): the nearest value with 53 significant bits, ties to even.
\* At most 11 low bits are dropped, all of them in the two lowest digits.
Float64(x) ==
    LET m    == TopDigit(x)
        bits == 10 * (m - 1) + BitLen(x[m])
    IN IF bits <= 53 THEN x
       ELSE LET p    == Pow2(bits - 53)
                lowv == x[1] + unit * x[2]
                low  == lowv % p
                odd  == (lowv \div p) % 2 = 1
                up   == 2 * low > p \/ (2 * low = p /\ odd)
                keep == lowv - low + (IF up THEN p ELSE 0)
            IN Carry([x EXCEPT ![1] = keep % unit, ![2] = keep \div unit], 2)

\* 10 * (digits 1..k of x): the k digits of the product, then its carry.
RECURSIVE Mul10(_, _, _, _)
Mul10(x, k, i, c) ==
    IF i > k THEN <<c>>
    ELSE <<(10 * x[i] + c) % unit>> \o Mul10(x, k, i + 1, (10 * x[i] + c) \div unit)

\* fmt's %.1f of float64(size) / float64(1024^k), k in 1..6: the division by
\* a power of two is exact, and strconv rounds the exact value to one
\* decimal, a tie going to the even digit.
Fmt1f(size, k) ==
    LET f      == Float64(size)
        whole  == f[k + 1] + (IF k + 2 <= 7 THEN unit * f[k + 2] ELSE 0)
        m      == Mul10(f, k, 1, 0)
        t0     == 10 * whole + m[k + 1]
        top    == m[k]
        lower  == \E i \in 1..(k - 1) : m[i] # 0
        up     == top > 512 \/ (top = 512 /\ (lower \/ t0 % 2 = 1))
        t      == IF up THEN t0 + 1 ELSE t0
    IN ToString(t \div 10) \o "." \o ToString(t % 10)

\* The k with div = 1024^k, or 0 when div is no such power (k is 1..6 for
\* every div the loop of humanReadableSize can produce).
UnitPower(div) ==
    IF \E k \in 1..6 : div = [i \in 1..7 |-> IF i = k + 1 THEN 1 ELSE 0]
    THEN CHOOSE k \in 1..6 : div = [i \in 1..7 |-> IF i = k + 1 THEN 1 ELSE 0]
    ELSE 0

\* What a panicking call leaves in place of its result.
Panic == "panic"

\* Mutant of hrLoop: the loop condition is n > unit instead of n >= unit.
RECURSIVE hrLoop_strict(_, _, _)
hrLoop_strict(n, div, exp) ==
    IF BelowUnit(n) \/ n = U64(unit) THEN [div |-> div, exp |-> exp]
    ELSE hrLoop_strict(DivUnit(n), MulUnit(div), exp + 1)

\* for n := size / unit; n >= unit; n /= unit { div *= unit; exp++ }
RECURSIVE hrLoop(_, _, _)
hrLoop(n, div, exp) ==
    IF BelowUnit(n) THEN [div |-> div, exp |-> exp]
    ELSE hrLoop(DivUnit(n), MulUnit(div), exp + 1)

\* humanReadableSize with the loop started at n := size instead of
\* n := size / unit.
humanReadableSize_loopFromSize(size) ==
    IF BelowUnit(size) THEN ToString(size[1]) \o " B"
    ELSE LET r == hrLoop(size, U64(unit), 0)
             k == UnitPower(r.div)
         IN IF r.exp > 5 THEN Panic
            ELSE IF k = 0 THEN "+Inf " \o SubSeq("KMGTPE", r.exp + 1, r.exp + 1) \o "B"
            ELSE Fmt1f(size, k) \o " " \o SubSeq("KMGTPE", r.exp + 1, r.exp + 1) \o "B"

\* humanReadableSize converts a size in bytes to a human-readable string.
humanReadableSize(size) ==
    IF BelowUnit(size) THEN ToString(size[1]) \o " B"
    ELSE LET r == hrLoop(DivUnit(size), U64(unit), 0)
             k == UnitPower(r.div)
         IN IF r.exp > 5 THEN Panic     \* "KMGTPE"[exp] out of range
            ELSE IF k = 0 THEN "+Inf " \o SubSeq("KMGTPE", r.exp + 1, r.exp + 1) \o "B"
            ELSE Fmt1f(size, k) \o " " \o SubSeq("KMGTPE", r.exp + 1, r.exp + 1) \o "B"

(***************************************************************************)
(* Percentages.  A float64 percentage is the exact fraction <<n, d>>, an   *)
(* int percentage (main.go) the one-element tuple <<n>>.                   *)
(***************************************************************************)
\* 100 - usage.UsedPercent
HundredMinus(q) == <<100 * q[2] - q[1], q[2]>>

\* int(NaN): main.go converts 0/0*100 to int when Total is 0; Go leaves the
\* result to the implementation, and it is kept as this token.
IntOfNaN == <<"int", "of", "NaN">>

\* int((float64(used) / float64(total)) * 100): truncation of the product.
\* On the model's byte counts (multiples of Bsize, at most a few blocks) the
\* float64 product truncates to the same integer as the exact quotient.
IntPercent(used, total) ==
    IF total = 0 THEN IntOfNaN ELSE <<(100 * used) \div total>>

\* 100 - usedPercent on ints
IntHundredMinus(q) == IF q = IntOfNaN THEN <<"100", "-", "int", "of", "NaN">> ELSE <<100 - q[1]>>

(***************************************************************************)
(* src/unnamed/part_000, lines 233-353: the collector with a host-proc     *)
(* prefix.                                                                 *)
(***************************************************************************)
\* contains with a loop that starts at the second element.
contains_fromSecond(slice, item) == \E i \in 2..Len(slice) : slice[i] = item

\* contains checks if a slice contains a specific string
contains(slice, item) == \E i \in 1..Len(slice) : slice[i] = item

\* The DiskInfo literal of gatherDiskInfo (both part_000 and part_001).
DiskInfo(p, u) ==
    [Device      |-> p.Device,
     Size        |-> u.Total,
     Used        |-> u.Used,
     Free        |-> u.Free,
     Type        |-> p.Fstype,
     HumanSize   |-> humanReadableSize(U64(u.Total)),
     HumanUsed   |-> humanReadableSize(U64(u.Used)),
     HumanFree   |-> humanReadableSize(U64(u.Free)),
     UsedPercent |-> u.UsedPercent,
     FreePercent |-> HundredMinus(u.UsedPercent)]

\* What a collection call has built so far: the record slice, the paths it
\* has passed to disk.Usage, and whether it has panicked.
NewCall == [diskInfos |-> <<>>, queries |-> <<>>, panic |-> FALSE]

\* Mutant of gatherBody: the check of usage.Total == 0 is missing.
gatherBody_noZeroCheck(ignore, hp, tbl, p, acc) ==
    IF p.Mountpoint = "" THEN acc
    ELSE LET path == Join(hp, p.Mountpoint)
             r    == Usage(tbl, path)
             q    == [acc EXCEPT !.queries = Append(@, path)]
         IN IF r.err THEN q
            ELSE IF contains(ignore, p.Fstype) THEN q
            ELSE [q EXCEPT !.diskInfos = Append(@, DiskInfo(p, r.stat))]

\* One iteration of the loop of gatherDiskInfo(ignoreTypes, hostProc).
gatherBody(ignore, hp, tbl, p, acc) ==
    IF p.Mountpoint = "" THEN acc
    ELSE LET path == Join(hp, p.Mountpoint)
             r    == Usage(tbl, path)
             q    == [acc EXCEPT !.queries = Append(@, path)]
         IN IF r.err THEN q
            ELSE IF r.stat.Total = 0 THEN q
            ELSE IF contains(ignore, p.Fstype) THEN q
            ELSE [q EXCEPT !.diskInfos = Append(@, DiskInfo(p, r.stat))]

RECURSIVE gatherLoop(_, _, _, _, _, _)
gatherLoop(ignore, hp, tbl, parts, i, acc) ==
    IF i > Len(parts) THEN acc
    ELSE gatherLoop(ignore, hp, tbl, parts, i + 1,
                    gatherBody(ignore, hp, tbl, parts[i], acc))

\* gatherDiskInfo collects disk information, ignoring specified types
gatherDiskInfo(ignore, hp, perr, parts, tbl) ==
    IF perr THEN NewCall      \* return nil
    ELSE gatherLoop(ignore, hp, tbl, parts, 1, NewCall)

(***************************************************************************)
(* src/unnamed/part_001, lines 53-123: the collector that drops both       *)
(* errors.                                                                 *)
(***************************************************************************)
\* One iteration of the loop of gatherDiskInfo(ignoreTypes): the error of
\* disk.Usage is dropped, so usage.Total dereferences a nil *UsageStat when
\* the query failed.
gatherBody_p1(ignore, tbl, p, acc) ==
    LET r == Usage(tbl, p.Mountpoint)
        q == [acc EXCEPT !.queries = Append(@, p.Mountpoint)]
    IN IF r.err THEN [q EXCEPT !.panic = TRUE]
       ELSE IF r.stat.Total = 0 THEN q
       ELSE IF contains(ignore, p.Fstype) THEN q
       ELSE [q EXCEPT !.diskInfos = Append(@, DiskInfo(p, r.stat))]

RECURSIVE gatherLoop_p1(_, _, _, _, _)
gatherLoop_p1(ignore, tbl, parts, i, acc) ==
    IF i > Len(parts) \/ acc.panic THEN acc
    ELSE gatherLoop_p1(ignore, tbl, parts, i + 1,
                       gatherBody_p1(ignore, tbl, parts[i], acc))

\* gatherDiskInfo of part_001: partitions, _ := disk.Partitions(true) leaves
\* a nil list when the enumeration fails.
gatherDiskInfo_p1(ignore, perr, parts, tbl) ==
    gatherLoop_p1(ignore, tbl, IF perr THEN <<>> ELSE parts, 1, NewCall)

(***************************************************************************)
(* src/main.go: the collector that writes the package variable diskInfos.  *)
(***************************************************************************)
\* The DiskInfo literal of FetchDiskInfo (PieChart, an SVG path computed
\* from UsedPercent alone, is left out).
DiskInfo_main(p, u) ==
    [Device      |-> p.Device,
     Size        |-> u.Total,
     Used        |-> u.Used,
     Free        |-> u.Free,
     HumanSize   |-> humanReadableSize(U64(u.Total)),
     HumanUsed   |-> humanReadableSize(U64(u.Used)),
     HumanFree   |-> humanReadableSize(U64(u.Free)),
     UsedPercent |-> IntPercent(u.Used, u.Total),
     FreePercent |-> IntHundredMinus(IntPercent(u.Used, u.Total))]

\* One iteration of the loop of FetchDiskInfo.  The loop over ignoreDisks
\* (lines 75-79) only prints "Ignore disk" for a device name that contains
\* an entry; it neither skips the partition nor changes any variable.
fetchBody(tbl, p, acc) ==
    LET r == Usage(tbl, p.Mountpoint)
        q == [acc EXCEPT !.queries = Append(@, p.Mountpoint)]
    IN IF r.err THEN q
       ELSE [q EXCEPT !.diskInfos = Append(@, DiskInfo_main(p, r.stat))]

RECURSIVE fetchLoop(_, _, _, _)
fetchLoop(tbl, parts, i, acc) ==
    IF i > Len(parts) THEN acc
    ELSE fetchLoop(tbl, parts, i + 1, fetchBody(tbl, parts[i], acc))

\* FetchDiskInfo: the new value of the package variable diskInfos.  When the
\* enumeration fails it returns before diskInfos = nil.
FetchDiskInfo(global, perr, parts, tbl) ==
    IF perr THEN [NewCall EXCEPT !.diskInfos = global]
    ELSE fetchLoop(tbl, parts, 1, NewCall)

(***************************************************************************)
(* The server: requests, and the operating system changing between them.   *)
(***************************************************************************)
Impls == {"main.go", "part_001", "part_000"}

\* hostProc = "/proc" when DISKINFO_HOST_PROC is unset
DefaultHostProc == "/proc"

\* The configurations a program starts with.  ignoreDisks of main.go is a
\* package variable that no statement of the program assigns: it is nil in
\* every run, and the loop of lines 75-79 over it never enters its body.
Configs ==
    { [impl |-> "main.go", ignoreTypes |-> <<>>, ignoreDisks |-> <<>>, hostProc |-> ""] }
    \cup { [impl |-> "part_001", ignoreTypes |-> ig, ignoreDisks |-> <<>>, hostProc |-> ""] :
        ig \in IgnoreLists }
    \cup { [impl |-> "part_000", ignoreTypes |-> ig, ignoreDisks |-> <<>>, hostProc |-> hp] :
        ig \in IgnoreLists, hp \in HostProcs \cup {DefaultHostProc} }

\* The path a program passes to disk.Usage for a mount point.
QueryPath(im, hp, mp) == IF im = "part_000" THEN Join(hp, mp) ELSE mp

\* The paths a program can query for a partition list.
QueriedPaths(im, hp, parts) ==
    { QueryPath(im, hp, parts[i].Mountpoint) :
        i \in { j \in 1..Len(parts) : parts[j].Mountpoint # "" } }

\* The mount points of a partition list.
MountPaths(parts) ==
    { parts[i].Mountpoint : i \in { j \in 1..Len(parts) : parts[j].Mountpoint # "" } }

\* What statfs answers on a mount point the running program does not query:
\* a mounted disk, full or empty.
MountedAnswers ==
    { a \in StatfsAnswers : /\ a.ok /\ a.Blocks = MaxBlocks
                            /\ a.Bavail = a.Bfree /\ a.Bfree \in {0, MaxBlocks} }

\* Statfs tables with an answer of A on the paths of R and no filesystem on
\* the others.
AnswerTables(R, A) ==
    { [path \in Paths |-> IF path \in R THEN f[path] ELSE StatfsFail] :
        f \in [R -> A] }

\* The statfs tables of the model: any answer on the paths R the running
\* program can query, a mounted disk on the mount points M it does not
\* query, no filesystem on the other paths.
UsageTables(R, M) ==
    { [path \in Paths |-> IF path \in R THEN f[path]
                          ELSE IF path \in M THEN g[path] ELSE StatfsFail] :
        f \in [R -> StatfsAnswers], g \in [(M \ R) -> MountedAnswers] }

Idle == [status |-> "idle", DiskInfos |-> <<>>]
Rendered(d) == [status |-> "ok", DiskInfos |-> d]
Panicked == [status |-> "panic", DiskInfos |-> <<>>]

\* tmpl.Execute of main.go stopped on an error in a row (html/template calls
\* a function on every value it prints, and text/template turns a fault
\* inside a function call into an error of Execute): line 108 drops the
\* error and IndexHandler returns, the page ends after the rows d.
Truncated(d) == [status |-> "truncated", DiskInfos |-> d]

\* What the template makes of memory that is no record of an array of
\* diskInfos (read or overwritten outside the bounds of an array): text
\* that no call built, or a crash on it.
Undefined == [status |-> "undefined", DiskInfos |-> <<>>]

(***************************************************************************)
(* The memory of main.go's package variable diskInfos (lines 27-30).  A    *)
(* slice is three words: the pointer to its array (0: nil, k: the k-th     *)
(* array allocated), its length and its capacity.  An array element is the *)
(* words of a DiskInfo (lines 14-25; the PieChart string is left out).     *)
(* The requests read and write the words of the header and of the elements *)
(* with no lock.                                                           *)
(***************************************************************************)
Slice(p, n, c) == [ptr |-> p, len |-> n, cap |-> c]
NilSlice == Slice(0, 0, 0)
Words == {"ptr", "len", "cap"}

\* DiskInfo{}: an array element that no append has written yet.
ZeroInfo ==
    [Device |-> "", Size |-> 0, Used |-> 0, Free |-> 0,
     HumanSize |-> "", HumanUsed |-> "", HumanFree |-> "",
     UsedPercent |-> <<0>>, FreePercent |-> <<0>>]

\* A DiskInfo in memory, word by word in address order: a string is the
\* pointer to its bytes (the bytes stand for it, none for nil) and its
\* length, a number is one word.
WordsOfInfo(rec) ==
    << rec.Device, Len(rec.Device), rec.Size, rec.Used, rec.Free,
       rec.HumanSize, Len(rec.HumanSize), rec.HumanUsed, Len(rec.HumanUsed),
       rec.HumanFree, Len(rec.HumanFree), rec.UsedPercent, rec.FreePercent >>

NumWords == Len(WordsOfInfo(ZeroInfo))

\* Where the pointer words of the strings are; the length is the next word.
StringWords == {1, 6, 8, 10}

\* An array element.  The words of a record are copied one by one, in no
\* order that the program fixes, and the copies, stores and reads of two
\* goroutines overlap: an element is kept as, for each word, the values the
\* word can hold, one value where no copies have met.  A reader or a copy
\* takes any one value of each word.
Image(rec) == [w \in 1..NumWords |-> {WordsOfInfo(rec)[w]}]
ZeroImage == Image(ZeroInfo)
NoValues == [w \in 1..NumWords |-> {}]

\* Memory behind the end of an array: as an element, and as what a reader
\* makes of it.
GarbageImage == <<>>
Garbage == [garbage |-> TRUE]

\* A reader followed a nil string pointer with a length: it faults.
Fault == [fault |-> TRUE]

\* Word by word, the values of either element.
Either(e, f) ==
    IF e = GarbageImage \/ f = GarbageImage THEN GarbageImage
    ELSE [w \in 1..NumWords |-> e[w] \cup f[w]]

\* Element k (from 1) of array p as it is in memory.
Slot(p, k) ==
    IF p \in 1..Len(heap) /\ k \in 1..Len(heap[p]) THEN heap[p][k] ELSE GarbageImage

\* The values the words of diskInfos had since a goroutine's last step: its
\* load of the three words, at any moments and in any order between two of
\* its steps, finds one of each.
NoWords == [w \in Words |-> {}]
WordsOf(d) == [w \in Words |-> {d[w]}]
Headers(c) == { Slice(p, n, k) : p \in c.ptr, n \in c.len, k \in c.cap }

\* A store to a word of diskInfos, and the store of a record to element idx
\* of array ptr.
StoreWord(w, v) == [w |-> w, ptr |-> 0, idx |-> 0, v |-> v]
StoreElem(p, k, rec) == [w |-> "elem", ptr |-> p, idx |-> k, v |-> rec]

\* diskInfos = nil as the gc compiler of the build (golang:1.22, Dockerfile
\* line 1) stores a slice to a variable: the length and the capacity, then
\* the pointer.
ResetStores == << {StoreWord("len", 0)}, {StoreWord("cap", 0)}, {StoreWord("ptr", 0)} >>

NoReqs == <<>>

\* A request goroutine: where it is in the handler, what disk.Partitions
\* answered to it, its loop index, its locals (acc.diskInfos is the slice of
\* the call for part_000 and part_001), its response, and for main.go
\* the word values seen since its last step, the stores it has still to
\* make (one set of stores after the other), the words other goroutines
\* stored to the element it is storing a record to, the header the
\* template ranges over and the elements it has read.
IdleReq == [pc |-> "idle", parts |-> <<>>, perr |-> FALSE, i |-> 1, acc |-> NewCall,
            out |-> Idle, cand |-> NoWords, todo |-> <<>>, riv |-> <<>>,
            hdr |-> NilSlice, got |-> <<>>]

\* The filesystems main.go and the concurrent runs start on: none, a pseudo
\* filesystem, a half-used disk.
ConcAnswers ==
    { StatfsFail,
      [ok |-> TRUE, Blocks |-> 0, Bfree |-> 0, Bavail |-> 0],
      [ok |-> TRUE, Blocks |-> MaxBlocks, Bfree |-> 1, Bavail |-> 1] }

\* The partition lists a program starts on.  main.go reads the device and
\* the mount point of a partition only (lines 70 and 84), so one filesystem
\* type stands for all; it starts on full lists of mounted partitions, and
\* the shorter ones come by Unmount.
InitialPartitions(im) ==
    IF im = "main.go"
    THEN { parts \in PartitionLists :
             /\ Len(parts) = MaxParts
             /\ \A i \in 1..Len(parts) :
                   /\ parts[i].Fstype = "ext4" /\ parts[i].Mountpoint # ""
                   /\ \A j \in 1..(i - 1) : parts[j].Mountpoint # parts[i].Mountpoint
             /\ parts[1].Mountpoint = "/" }
    ELSE PartitionLists

\* The statfs tables a program starts on.
InitialTables(im, hp, parts) ==
    IF im = "main.go"
    THEN AnswerTables(QueriedPaths(im, hp, parts), ConcAnswers)
    ELSE UsageTables(QueriedPaths(im, hp, parts), MountPaths(parts))

\* main.go is served by NumReqs request goroutines that net/http runs
\* side by side; part_000 and part_001 share nothing between requests and
\* are served one call at a time here.
Init ==
    /\ \E c \in Configs :
         /\ impl = c.impl
         /\ ignoreTypes = c.ignoreTypes
         /\ ignoreDisks = c.ignoreDisks
         /\ hostProc = c.hostProc
         /\ partitions \in InitialPartitions(c.impl)
         /\ usage \in InitialTables(c.impl, c.hostProc, partitions)
         /\ reqs = IF c.impl = "main.go" THEN [r \in 1..NumReqs |-> IdleReq]
                   ELSE NoReqs
    /\ partErr = FALSE
    /\ diskInfos = NilSlice
    /\ heap = <<>>
    /\ wild = FALSE
    /\ resp = Idle
    /\ queries = <<>>
    /\ hrSize = U64(0)
    /\ hrOut = ""

config == <<impl, ignoreTypes, ignoreDisks, hostProc>>
os == <<partitions, partErr, usage>>
memory == <<diskInfos, heap, wild>>
answer == <<resp, queries>>
formatter == <<hrSize, hrOut>>
harness == <<reqs, hrSize, hrOut>>

(***************************************************************************)
(* The steps of a request goroutine.  net/http runs every request in a     *)
(* goroutine of its own, and main.go takes no lock: every store to a word  *)
(* of diskInfos, every load of the three words, every copy of a record to  *)
(* an array element and every read of an element is a step that the steps  *)
(* of the other requests and of the operating system come between.  The    *)
(* copy of a record takes from the step before it to its own step, and     *)
(* what meets it in between finds every word old or new.                   *)
(***************************************************************************)
\* The goroutine will load the words of diskInfos at its next step.
Watching(q) == impl = "main.go" /\ q.pc \in {"loop", "render"}

\* The goroutines after goroutine r made a step to new that left diskInfos
\* as d: r has seen nothing yet since this step, the others have seen d too.
Stepped(r, new, d) ==
    [q \in DOMAIN reqs |->
        IF q = r
        THEN [new EXCEPT !.cand = IF Watching(new) THEN WordsOf(d) ELSE NoWords]
        ELSE IF Watching(reqs[q])
        THEN [reqs[q] EXCEPT !.cand = [w \in Words |-> @[w] \cup {d[w]}]]
        ELSE reqs[q]]

\* Goroutine r ends its request with response o.
Done(r, o) ==
    [IdleReq EXCEPT !.pc = "done", !.parts = reqs[r].parts, !.perr = reqs[r].perr,
                    !.out = o]

\* What a response can be once a record was stored behind the end of an
\* array, into memory of something else.
Outcomes(o) == IF wild THEN {o, Undefined} ELSE {o}

\* Where the loop goes after the iteration of index i.
NextPc(r) == IF reqs[r].i = Len(reqs[r].parts) THEN "render" ELSE "loop"

\* The handler calls the collector, which enumerates the partitions.
\* main.go returns from FetchDiskInfo at once when that fails; part_000
\* returns nil; part_001 goes on with the nil list.
ReqEnumerate(r) ==
    /\ r \in DOMAIN reqs
    /\ reqs[r].pc = "idle"
    /\ reqs' = Stepped(r,
          [reqs[r] EXCEPT
              !.pc    = IF impl = "main.go"
                        THEN (IF partErr THEN "render" ELSE "reset")
                        ELSE (IF partErr \/ partitions = <<>> THEN "render" ELSE "loop"),
              !.parts = IF partErr THEN <<>> ELSE partitions,
              !.perr  = partErr,
              !.todo  = IF impl = "main.go" /\ ~partErr THEN ResetStores ELSE <<>>],
          diskInfos)
    /\ UNCHANGED <<config, os, memory, answer, formatter>>

\* The store that is next for goroutine q.
Pending(q) == CHOOSE s \in reqs[q].todo[1] : TRUE

\* The goroutines other than r that are storing a record to element k of
\* array p: the length is stored, and the words of the record go to the
\* element one by one, at any moments up to the goroutine's next step.
InFlight(r, p, k) ==
    { q \in DOMAIN reqs \ {r} :
        /\ reqs[q].pc = "store"
        /\ Pending(q).w = "elem" /\ Pending(q).ptr = p /\ Pending(q).idx = k }

\* Word by word, the values of the records that the goroutines of Q are
\* storing.
Arriving(Q) == [w \in 1..NumWords |-> UNION { Image(Pending(q).v)[w] : q \in Q }]

\* The arrays h once the store of a record is the next of the stores todo:
\* from now on a word of the element holds what it held or the word of the
\* record.
Begun(todo, h) ==
    IF todo = <<>> THEN h
    ELSE LET s == CHOOSE x \in todo[1] : TRUE IN
         IF s.w = "elem" /\ s.ptr \in 1..Len(h) /\ s.idx \in 1..Len(h[s.ptr])
         THEN [h EXCEPT ![s.ptr] = [@ EXCEPT ![s.idx] = Either(@, Image(s.v))]]
         ELSE h

\* What store s of goroutine r does to the memory.  A word of diskInfos
\* takes the value.  The words of a record are all in the element now: a
\* word holds the word of the record, or the word that another goroutine
\* stored or is storing there since the store began (riv).  A nil pointer
\* makes the goroutine panic, and an index behind the end of the array
\* overwrites memory of something else.
Effect(r, s) ==
    IF s.w \in Words
    THEN [panic |-> FALSE, d |-> [diskInfos EXCEPT ![s.w] = s.v], h |-> heap, w |-> wild]
    ELSE IF s.ptr = 0
    THEN [panic |-> TRUE, d |-> diskInfos, h |-> heap, w |-> wild]
    ELSE IF s.idx > Len(heap[s.ptr])
    THEN [panic |-> FALSE, d |-> diskInfos, h |-> heap, w |-> TRUE]
    ELSE [panic |-> FALSE, d |-> diskInfos,
          h |-> [heap EXCEPT ![s.ptr] =
                   [@ EXCEPT ![s.idx] =
                       Either(Image(s.v),
                              Either(reqs[r].riv, Arriving(InFlight(r, s.ptr, s.idx))))]],
          w |-> wild]

\* The goroutines f after goroutine r made store s: the goroutines that are
\* storing a record to the same element have the words of s beside theirs.
Met(f, r, s) ==
    IF s.w \in Words THEN f
    ELSE [q \in DOMAIN f |->
            IF q \in InFlight(r, s.ptr, s.idx)
            THEN [f[q] EXCEPT !.riv = Either(@, Image(s.v))]
            ELSE f[q]]

\* The stores left after store s of the first set.
Rest(todo, s) ==
    IF todo[1] = {s} THEN Tail(todo) ELSE <<todo[1] \ {s}>> \o Tail(todo)

\* main.go line 67: diskInfos = nil, one word at a time.
ReqReset(r) ==
    /\ r \in DOMAIN reqs
    /\ reqs[r].pc = "reset"
    /\ \E s \in reqs[r].todo[1] :
       \E e \in { Effect(r, s) } :
       \E rest \in { Rest(reqs[r].todo, s) } :
          /\ diskInfos' = e.d
          /\ reqs' = Stepped(r,
                [reqs[r] EXCEPT !.todo = rest,
                                !.pc = IF rest # <<>> THEN "reset"
                                       ELSE IF reqs[r].parts = <<>> THEN "render"
                                       ELSE "loop"],
                e.d)
    /\ UNCHANGED <<config, os, heap, wild, answer, formatter>>

\* runtime.growslice (Go 1.22, nextslicecap below 256 elements): the
\* capacity for newLen elements on an array of oldCap.  A DiskInfo is 120
\* bytes, and the size classes of the allocator hold exactly 1, 2, ..., 8 of
\* them, so the capacity is not rounded up.
nextslicecap(newLen, oldCap) == IF newLen > 2 * oldCap THEN newLen ELSE 2 * oldCap

\* The array growslice allocates for header h: the h.len elements the
\* pointer of h points to, copied word by word, and zeroed elements after
\* them.  Of an element that a goroutine is storing a record to, a copied
\* word is the word before the store or the word of the record.
growslice(h) ==
    [k \in 1..nextslicecap(h.len + 1, h.cap) |->
        IF k <= h.len THEN Slot(h.ptr, k) ELSE ZeroImage]

\* The append of line 83 on the header h it loaded, as the gc compiler
\* writes diskInfos = append(diskInfos, e).  When the capacity is used up,
\* growslice copies into a new array (it panics when it has elements to
\* copy from a nil pointer), and the capacity, the pointer and the length
\* are stored in this order, then the words of the record.  Otherwise the
\* length is stored and then the words of the record, through the pointer
\* of h.
append(h, rec) ==
    IF h.len + 1 > h.cap
    THEN IF h.ptr = 0 /\ h.len > 0
         THEN [panic |-> TRUE, heap |-> heap, todo |-> <<>>]
         ELSE [panic |-> FALSE,
               heap  |-> Append(heap, growslice(h)),
               todo  |-> << { StoreWord("cap", nextslicecap(h.len + 1, h.cap)) },
                            { StoreWord("ptr", Len(heap) + 1) },
                            { StoreWord("len", h.len + 1) },
                            { StoreElem(Len(heap) + 1, h.len + 1, rec) } >>]
    ELSE [panic |-> FALSE, heap |-> heap,
          todo  |-> << { StoreWord("len", h.len + 1) },
                       { StoreElem(h.ptr, h.len + 1, rec) } >>]

\* One iteration of the loop over the partitions.  part_000 and part_001
\* run the whole body on the slice of the call.  main.go calls disk.Usage
\* (line 70), goes to the next partition when that fails, and otherwise
\* builds the record and loads the slice header of diskInfos for the append
\* of line 83, growing the array when the header has no room.
ReqIterate(r) ==
    /\ r \in DOMAIN reqs
    /\ reqs[r].pc = "loop"
    /\ IF impl = "main.go"
       THEN \E u \in { Usage(usage, reqs[r].parts[reqs[r].i].Mountpoint) } :
            \E h \in (IF u.err THEN {NilSlice} ELSE Headers(reqs[r].cand)) :
            \E a \in { IF u.err THEN [panic |-> FALSE, heap |-> heap, todo |-> <<>>]
                       ELSE append(h, DiskInfo_main(reqs[r].parts[reqs[r].i], u.stat)) } :
               /\ heap' = a.heap
               /\ reqs' = IF a.panic THEN [reqs EXCEPT ![r] = Done(r, Panicked)]
                          ELSE Stepped(r,
                                 [reqs[r] EXCEPT
                                     !.pc = IF u.err THEN NextPc(r) ELSE "store",
                                     !.i = IF u.err THEN @ + 1 ELSE @,
                                     !.todo = a.todo],
                                 diskInfos)
       ELSE \E c \in { IF impl = "part_001"
                        THEN gatherBody_p1(ignoreTypes, usage, reqs[r].parts[reqs[r].i],
                                           reqs[r].acc)
                        ELSE gatherBody(ignoreTypes, hostProc, usage,
                                        reqs[r].parts[reqs[r].i], reqs[r].acc) } :
               /\ heap' = heap
               /\ reqs' = [reqs EXCEPT ![r] =
                     IF c.panic THEN Done(r, Panicked)
                     ELSE [@ EXCEPT !.pc = NextPc(r), !.i = @ + 1, !.acc = c]]
    /\ UNCHANGED <<config, os, diskInfos, wild, answer, formatter>>

\* main.go line 83, the stores of the append: a word of diskInfos, or the
\* words of the record of lines 83-94, which go to the element between the
\* store of the length and this goroutine's next step.
ReqStore(r) ==
    /\ r \in DOMAIN reqs
    /\ reqs[r].pc = "store"
    /\ \E s \in reqs[r].todo[1] :
       \E e \in { Effect(r, s) } :
       \E rest \in { Rest(reqs[r].todo, s) } :
          /\ diskInfos' = e.d
          /\ heap' = Begun(rest, e.h)
          /\ wild' = e.w
          /\ reqs' = IF e.panic THEN [reqs EXCEPT ![r] = Done(r, Panicked)]
                     ELSE Met(Stepped(r,
                            [reqs[r] EXCEPT !.todo = rest,
                                            !.riv = IF rest # <<>> THEN NoValues ELSE <<>>,
                                            !.pc = IF rest # <<>> THEN "store" ELSE NextPc(r),
                                            !.i = IF rest # <<>> THEN @ ELSE @ + 1],
                            e.d), r, s)
    /\ UNCHANGED <<config, os, answer, formatter>>

\* What the handler hands to the template.  main.go loads the header of the
\* package variable (line 109): the template has nothing to range over when
\* the length is 0, and ranges over the array of the pointer otherwise.  The
\* others hand over the slice gatherDiskInfo returned.
Handed(r) ==
    IF impl = "main.go"
    THEN { IF h.len = 0 THEN [pc |-> "done", hdr |-> NilSlice, out |-> o]
           ELSE [pc |-> "range", hdr |-> h, out |-> Idle] :
              h \in Headers(reqs[r].cand), o \in Outcomes(Rendered(<<>>)) }
    ELSE { [pc |-> "done", hdr |-> NilSlice, out |-> Rendered(reqs[r].acc.diskInfos)] }

\* The handler executes the template (lines 107-111).
ReqRender(r) ==
    /\ r \in DOMAIN reqs
    /\ reqs[r].pc = "render"
    /\ \E t \in Handed(r) :
          /\ reqs' = [reqs EXCEPT ![r] =
                IF t.pc = "done" THEN Done(r, t.out)
                ELSE [@ EXCEPT !.pc = "range", !.hdr = t.hdr, !.cand = NoWords]]
    /\ UNCHANGED <<config, os, memory, answer, formatter>>

\* The template reads the fields of one element of the slice it ranges
\* over, through the pointer of the header and in place (inside
\* tmpl.Execute, lines 108-111), and writes to the connection.  Through a
\* nil pointer the first read of a field faults: where the template prints
\* the field, the fault is inside the call of the escaper, Execute returns
\* an error and the page is cut off in the first row; where it reads the
\* field outside a function call (a number tested by if), the goroutine
\* panics.  templates/index.html is not in the sources, so both can be.  It
\* reads the element word by word: of an element that a goroutine is
\* storing a record to, a word it reads is the word before the store or the
\* word of the record, and of an element behind the end of the array it
\* reads memory of something else.  After the last element the response is
\* complete: the elements as they were read (what the client gets of them
\* is Responses, below).
ReqRange(r) ==
    /\ r \in DOMAIN reqs
    /\ reqs[r].pc = "range"
    /\ \E got \in { Append(reqs[r].got, Slot(reqs[r].hdr.ptr, Len(reqs[r].got) + 1)) } :
       \E o \in (IF reqs[r].hdr.ptr = 0 THEN {Truncated(<<>>), Panicked}
                 ELSE IF Len(got) < reqs[r].hdr.len THEN {Idle}
                 ELSE Outcomes(Rendered(got))) :
          /\ reqs' = [reqs EXCEPT ![r] =
                IF o = Idle THEN [@ EXCEPT !.got = got] ELSE Done(r, o)]
    /\ UNCHANGED <<config, os, memory, answer, formatter>>

\* part_001 handler(ignoreTypes): a panic of gatherDiskInfo ends the request
\* (net/http recovers it and serves on) before anything is rendered.
handler_p1 ==
    /\ impl = "part_001"
    /\ LET c == gatherDiskInfo_p1(ignoreTypes, partErr, partitions, usage) IN
         /\ resp' = IF c.panic THEN Panicked ELSE Rendered(c.diskInfos)
         /\ queries' = c.queries
    /\ UNCHANGED <<config, os, memory, harness>>

\* part_000 handler(ignoreTypes, hostProc)
handler ==
    /\ impl = "part_000"
    /\ LET c == gatherDiskInfo(ignoreTypes, hostProc, partErr, partitions, usage) IN
         /\ resp' = Rendered(c.diskInfos)
         /\ queries' = c.queries
    /\ UNCHANGED <<config, os, memory, harness>>

\* A call of disk.Partitions can still come: the handlers of part_000 and
\* part_001 are called again and again, a request goroutine calls it once.
Observable == reqs = NoReqs \/ \E r \in DOMAIN reqs : reqs[r].pc = "idle"

\* The operating system, at any moment up to the last call of
\* disk.Partitions (a change after it is seen by nothing): the partition
\* enumeration starts to fail, works again, or the last partition is
\* unmounted.  The requests being served go on with what disk.Partitions
\* answered to them.
EnumerationFails ==
    /\ Observable
    /\ ~partErr
    /\ partErr' = TRUE
    /\ resp' = Idle
    /\ queries' = <<>>
    /\ UNCHANGED <<config, partitions, usage, memory, harness>>

EnumerationRecovers ==
    /\ Observable
    /\ partErr
    /\ partErr' = FALSE
    /\ resp' = Idle
    /\ queries' = <<>>
    /\ UNCHANGED <<config, partitions, usage, memory, harness>>

Unmount ==
    /\ Observable
    /\ partitions # <<>>
    /\ partitions' = SubSeq(partitions, 1, Len(partitions) - 1)
    /\ resp' = Idle
    /\ queries' = <<>>
    /\ UNCHANGED <<config, partErr, usage, memory, harness>>

\* A request goroutine of main.go runs IndexHandler: the steps of
\* FetchDiskInfo() (lines 60-96), then the execution of the template on the
\* package variable diskInfos (lines 107-111).
Next ==
    \/ \E r \in 1..NumReqs :
          \/ ReqEnumerate(r)
          \/ ReqReset(r)
          \/ ReqIterate(r)
          \/ ReqStore(r)
          \/ ReqRender(r)
          \/ ReqRange(r)
    \/ handler_p1
    \/ handler
    \/ EnumerationFails
    \/ EnumerationRecovers
    \/ Unmount

Spec == Init /\ [][Next]_vars

(***************************************************************************)
(* Properties of the server, stated of every call that has finished: its   *)
(* response and what disk.Partitions answered to it (the statfs table does *)
(* not change).  For main.go the calls are the requests that are done,     *)
(* under every interleaving of the steps of NumReqs requests and of the    *)
(* operating system.  For part_000 and part_001 the call is the last one   *)
(* of handler(); a step of the operating system drops its response.        *)
(***************************************************************************)
\* The ignore set of the running program.
IgnoreSet == IF impl = "main.go" THEN ignoreDisks ELSE ignoreTypes

\* Type ty is an element of the ignore set.
Ignored(ty) == ty \in { IgnoreSet[k] : k \in 1..Len(IgnoreSet) }

\* The answer of the usage query the running program issues for partition p.
QueryOf(p) == Usage(usage, QueryPath(impl, hostProc, p.Mountpoint))

\* The strings a reader can make of a pointer word and a length word: the
\* first n bytes behind the pointer, the empty string when n is 0.
Strings(P, N) ==
    { SubSeq(x[1], 1, x[2]) : x \in { y \in P \X N : y[2] <= Len(y[1]) } }

\* The reader can find a nil pointer with a length / a length that goes
\* beyond the bytes behind the pointer.
NilString(P, N) == \E n \in N : n > 0 /\ "" \in P
LongString(P, N) == \E y \in P \X N : y[1] # "" /\ y[2] > Len(y[1])

\* What the template can make of array element e, reading one value of
\* every word: a record, a fault on a nil pointer, bytes of something else.
Records(e) ==
    IF e = GarbageImage THEN {Garbage}
    ELSE { [Device |-> d, Size |-> s, Used |-> u, Free |-> f,
            HumanSize |-> hs, HumanUsed |-> hu, HumanFree |-> hf,
            UsedPercent |-> up, FreePercent |-> fp] :
              d \in Strings(e[1], e[2]), s \in e[3], u \in e[4], f \in e[5],
              hs \in Strings(e[6], e[7]), hu \in Strings(e[8], e[9]),
              hf \in Strings(e[10], e[11]), up \in e[12], fp \in e[13] }
         \cup (IF \E w \in StringWords : NilString(e[w], e[w + 1]) THEN {Fault} ELSE {})
         \cup (IF \E w \in StringWords : LongString(e[w], e[w + 1]) THEN {Garbage} ELSE {})

\* The lists the template can make of the elements it has read.
RECURSIVE Readings(_)
Readings(got) ==
    IF got = <<>> THEN { <<>> }
    ELSE { <<x>> \o l : x \in Records(Head(got)), l \in Readings(Tail(got)) }

\* The response for a list: the rows, unless the template met bytes of
\* something else or a string with a nil pointer first.  The bytes of a
\* string are read only inside a function call (the escaper of a printed
\* value, eq, printf), where a fault becomes an error of Execute: the page
\* ends after the rows before, and the handler returns.
Written(l) ==
    LET bad == { k \in 1..Len(l) : l[k] = Fault \/ l[k] = Garbage } IN
    IF bad = {} THEN Rendered(l)
    ELSE LET first == CHOOSE k \in bad : \A j \in bad : k <= j IN
         IF l[first] = Fault THEN Truncated(SubSeq(l, 1, first - 1))
         ELSE Undefined

\* The responses a client can get for the response o of a request: for the
\* elements the template of main.go has read, every list it can make of them.
Responses(o) ==
    IF impl = "main.go" /\ o.status = "ok"
    THEN { Written(l) : l \in Readings(o.DiskInfos) }
    ELSE {o}

\* The calls that have finished: the response, and the list and the error
\* of the enumeration.
Calls ==
    IF impl = "main.go"
    THEN UNION { { [resp |-> o, parts |-> reqs[r].parts, perr |-> reqs[r].perr] :
                      o \in Responses(reqs[r].out) } :
                 r \in { q \in DOMAIN reqs : reqs[q].pc = "done" } }
    ELSE IF resp.status = "idle" THEN {}
    ELSE { [resp |-> resp, parts |-> partitions, perr |-> partErr] }

\* The records of call c that carry the device of partition p.
RecordsFor(c, p) ==
    { j \in 1..Len(c.resp.DiskInfos) : c.resp.DiskInfos[j].Device = p.Device }

\* What the running program's collection call yields on a partition list.
CallOn(parts) ==
    IF impl = "main.go" THEN FetchDiskInfo(<<>>, FALSE, parts, usage)
    ELSE IF impl = "part_001" THEN gatherDiskInfo_p1(ignoreTypes, FALSE, parts, usage)
    ELSE gatherDiskInfo(ignoreTypes, hostProc, FALSE, parts, usage)

RespOf(c) == IF c.panic THEN Panicked ELSE Rendered(c.diskInfos)

\* C1: a collection call never returns a record for a partition whose
\* filesystem type is an element of the ignore set, whatever its usage
\* values (gatherDiskInfo of part_000 and FetchDiskInfo of main.go).
C1_IgnoredTypeNeverReturned ==
    IgnoreSet # <<>> =>
        \A c \in Calls :
            (impl \in {"part_000", "main.go"} /\ ~c.perr) =>
                \A i \in 1..Len(c.parts) :
                    Ignored(c.parts[i].Fstype) => RecordsFor(c, c.parts[i]) = {}

\* A call of part_000 met a mounted, nonzero-size partition of an ignored type.
C1_Witness ==
    \E c \in Calls :
        /\ impl = "part_000"
        /\ c.resp.status = "ok"
        /\ ~c.perr
        /\ \E i \in 1..Len(c.parts) :
             /\ c.parts[i].Mountpoint # ""
             /\ ~QueryOf(c.parts[i]).err
             /\ QueryOf(c.parts[i]).stat.Total # 0
             /\ Ignored(c.parts[i].Fstype)
             /\ QueryPath(impl, hostProc, c.parts[i].Mountpoint) \in
                    { queries[k] : k \in 1..Len(queries) }

\* C2: a collection call never returns a record whose total size is 0, the
\* partition being skipped before a percentage is computed from a zero total
\* (gatherDiskInfo of part_000 and FetchDiskInfo of main.go).
C2_ZeroTotalNeverReturned ==
    \A c \in Calls :
        impl \in {"part_000", "main.go"} =>
            \A j \in 1..Len(c.resp.DiskInfos) :
                /\ c.resp.DiskInfos[j].Size # 0
                /\ c.resp.DiskInfos[j].UsedPercent # IntOfNaN

\* C3: a partition whose mount point is the empty string gets no record, no
\* usage query is issued for it, and the call goes on as if the partition
\* were not in the list (gatherDiskInfo of part_000 and of part_001).
C3_EmptyMountpointSkipped ==
    \A c \in Calls :
        (impl \in {"part_000", "part_001"} /\ ~c.perr) =>
            \A i \in 1..Len(c.parts) :
                c.parts[i].Mountpoint = "" =>
                    /\ RecordsFor(c, c.parts[i]) = {}
                    /\ \A k \in 1..Len(queries) : queries[k] # ""
                    /\ c.resp = RespOf(CallOn(SelectSeq(c.parts,
                                                        LAMBDA p : p.Mountpoint # "")))

\* A partition whose usage query fails / a partition that is to be listed.
FailingMount(p) == p.Mountpoint # "" /\ QueryOf(p).err
GoodMount(p) ==
    /\ p.Mountpoint # ""
    /\ ~QueryOf(p).err
    /\ QueryOf(p).stat.Total # 0
    /\ ~Ignored(p.Fstype)

\* C4: over a list of one failing and one succeeding (nonzero-size,
\* non-ignored) mount, in either order, the call terminates normally and
\* returns exactly one record, that of the succeeding mount
\* (gatherDiskInfo of part_000 and of part_001).
C4_FailingMountOmitted ==
    \A c \in Calls :
        (impl \in {"part_000", "part_001"} /\ ~c.perr /\ Len(c.parts) = 2) =>
            \A i, j \in 1..2 :
                (FailingMount(c.parts[i]) /\ GoodMount(c.parts[j])) =>
                    /\ c.resp.status = "ok"
                    /\ Len(c.resp.DiskInfos) = 1
                    /\ c.resp.DiskInfos[1].Device = c.parts[j].Device
                    /\ c.resp.DiskInfos[1].Size = QueryOf(c.parts[j]).stat.Total

\* C5: when the partition enumeration fails, the call terminates normally
\* and hands an empty record sequence to the renderer, whatever calls
\* preceded it (gatherDiskInfo of part_000, IndexHandler of main.go).
C5_EnumerationFailureYieldsEmpty ==
    \A c \in Calls :
        (impl \in {"part_000", "main.go"} /\ c.perr) => c.resp = Rendered(<<>>)

\* A partition that has a non-empty mount point, a successful usage query and
\* a nonzero total.
ValidPartition(p) ==
    p.Mountpoint # "" /\ ~QueryOf(p).err /\ QueryOf(p).stat.Total # 0

\* C6: with an empty ignore set, gatherDiskInfo of part_000 returns exactly
\* one record per partition with a non-empty mount point, a successful usage
\* query and a nonzero total, in the order of the enumeration: the records
\* are the order-preserving filtered subsequence of the partitions.
C6_OneRecordPerValidPartitionInOrder ==
    (impl = "part_000" /\ ignoreTypes = <<>>) =>
        \A c \in Calls :
            ~c.perr =>
                LET valid == SelectSeq(c.parts, ValidPartition) IN
                /\ c.resp.status = "ok"
                /\ Len(c.resp.DiskInfos) = Len(valid)
                /\ \A k \in 1..Len(valid) :
                      /\ c.resp.DiskInfos[k].Device = valid[k].Device
                      /\ c.resp.DiskInfos[k].Type = valid[k].Fstype
                      /\ c.resp.DiskInfos[k].Size = QueryOf(valid[k]).stat.Total

\* C6 witness: two valid partitions were listed, the second device after the
\* first.
C6_Witness ==
    \E c \in Calls :
        /\ impl = "part_000" /\ ~c.perr /\ ignoreTypes = <<>>
        /\ Len(c.resp.DiskInfos) = 2
        /\ c.resp.DiskInfos[1].Device = Devices[1]
        /\ c.resp.DiskInfos[2].Device = Devices[2]
        /\ c.resp.DiskInfos[1].Size # 0

\* usedPercent + freePercent == 100 and both within [0, 100], on fractions
\* (float64 fields) and on ints (main.go).
PercentsAddUp(r) ==
    LET u == r.UsedPercent
        f == r.FreePercent
    IN IF Len(u) = 2
       THEN /\ u[2] > 0 /\ f[2] > 0
            /\ u[1] * f[2] + f[1] * u[2] = 100 * u[2] * f[2]
            /\ 0 <= u[1] /\ u[1] <= 100 * u[2]
            /\ 0 <= f[1] /\ f[1] <= 100 * f[2]
       ELSE /\ Len(u) = 1 /\ Len(f) = 1
            /\ u[1] + f[1] = 100
            /\ 0 <= u[1] /\ u[1] <= 100
            /\ 0 <= f[1] /\ f[1] <= 100

\* C7: for every emitted record with total > 0 and 0 <= used <= total,
\* usedPercent + freePercent equals 100 exactly and both lie in [0, 100].
\* The emitted records are the rows a response shows (status "ok"): for
\* main.go what the template reads from the array elements, word by word,
\* while other requests clear, append and copy, and the operating system
\* changes.
C7_PercentsSumTo100 ==
    \A c \in Calls :
        c.resp.status = "ok" =>
            \A j \in 1..Len(c.resp.DiskInfos) :
                LET r == c.resp.DiskInfos[j] IN
                (r.Size > 0 /\ 0 <= r.Used /\ r.Used <= r.Size) => PercentsAddUp(r)

\* Every record of call c is one the operating system answered to the call:
\* a partition of its enumeration with that device, whose usage query
\* succeeds with the record's byte counts.
FreshOnly(c) ==
    c.resp.status = "ok" =>
        \A j \in 1..Len(c.resp.DiskInfos) :
            /\ ~c.perr
            /\ \E i \in 1..Len(c.parts) :
                  /\ c.parts[i].Device = c.resp.DiskInfos[j].Device
                  /\ ~QueryOf(c.parts[i]).err
                  /\ c.resp.DiskInfos[j].Size = QueryOf(c.parts[i]).stat.Total
                  /\ c.resp.DiskInfos[j].Used = QueryOf(c.parts[i]).stat.Used
                  /\ c.resp.DiskInfos[j].Free = QueryOf(c.parts[i]).stat.Free

\* What a call renders when it runs alone on a freshly started server and
\* disk.Partitions answers parts, or fails.
RunAlone(perr, parts) ==
    RespOf(IF impl = "main.go" THEN FetchDiskInfo(<<>>, perr, parts, usage)
           ELSE IF impl = "part_001"
           THEN gatherDiskInfo_p1(ignoreTypes, perr, parts, usage)
           ELSE gatherDiskInfo(ignoreTypes, hostProc, perr, parts, usage))

\* C9: the result of a collection call is a function of the ignore set and
\* the operating system state at call time only: whatever calls preceded it,
\* a call renders the list a first call renders on the same operating system
\* state (so two calls in a row on an unchanged system render equal lists),
\* and no record is rendered that the operating system of the call does not
\* answer for (gatherDiskInfo of part_000, FetchDiskInfo of main.go).  The
\* calls before it are the requests served earlier, one after the other or
\* side by side.
C9_ResultIsFunctionOfOsState ==
    \A c \in Calls :
        impl \in {"part_000", "main.go"} =>
            /\ c.resp = RunAlone(c.perr, c.parts)
            /\ FreshOnly(c)

(***************************************************************************)
(* The formatter on its own: humanReadableSize applied to a byte count.    *)
(***************************************************************************)
\* The byte counts of the harness: every combination of a few digit values
\* (so every unit from B to EB, with fractions at both ends of a unit), and
\* counts that sit on a rounding boundary of the decimal or of the float64.
HrDigits == {0, 1, 512, 1023}
HrTopDigits == {0, 1, 15}
HrInputs ==
    { <<a, b, c, d, e, f, g>> :
        a \in HrDigits, b \in HrDigits, c \in HrDigits, d \in HrDigits,
        e \in HrDigits, f \in HrDigits, g \in HrTopDigits }
    \cup { U64(1280), U64(1075), U64(1076), U64(1536), U64(1048575),
           <<0, 0, 0, 0, 256, 8, 0>>, <<1, 0, 0, 0, 256, 8, 0>>,
           <<3, 0, 0, 0, 256, 8, 0>>, <<1023, 1023, 1023, 1023, 1023, 7, 0>> }

NotCalled == ""

InitHuman ==
    /\ impl = "part_000"
    /\ ignoreTypes = <<>>
    /\ ignoreDisks = <<>>
    /\ hostProc = DefaultHostProc
    /\ partitions = <<>>
    /\ partErr = FALSE
    /\ usage = [path \in Paths |-> StatfsFail]
    /\ diskInfos = NilSlice
    /\ heap = <<>>
    /\ wild = FALSE
    /\ resp = Idle
    /\ queries = <<>>
    /\ reqs = NoReqs
    /\ hrSize \in HrInputs
    /\ hrOut = NotCalled

\* A call of humanReadableSize(hrSize).
CallHumanReadableSize ==
    /\ hrOut = NotCalled
    /\ hrOut' = humanReadableSize(hrSize)
    /\ UNCHANGED <<config, os, memory, answer, reqs, hrSize>>

NextHuman == CallHumanReadableSize

SpecHuman == InitHuman /\ [][NextHuman]_vars

\* b / 1024^k on a uint64
RECURSIVE DivUnitTimes(_, _)
DivUnitTimes(b, k) == IF k = 0 THEN b ELSE DivUnitTimes(DivUnit(b), k - 1)

\* The number of divisions by 1024 needed to bring the quotient below 1024.
RefDivisions(b) ==
    CHOOSE k \in 0..6 :
        /\ BelowUnit(DivUnitTimes(b, k))
        /\ \A j \in 0..(k - 1) : ~BelowUnit(DivUnitTimes(b, j))

\* 20 * (digits 1..k of x): the k digits of the product, then its carry.
RECURSIVE Times20(_, _, _, _)
Times20(x, k, i, c) ==
    IF i > k THEN <<c>>
    ELSE <<(20 * x[i] + c) % unit>> \o Times20(x, k, i + 1, (20 * x[i] + c) \div unit)

\* The numbers of tenths nearest to x / 1024^k (two of them when x / 1024^k
\* lies half way): with q the whole part, 20 * fraction = c + L, c its whole
\* part, the tenth 10 * q + d is nearest when 2d - 1 <= c + L <= 2d + 1.
NearestTenths(x, k) ==
    LET q  == x[k + 1] + (IF k + 2 <= 7 THEN unit * x[k + 2] ELSE 0)
        m  == Times20(x, k, 1, 0)
        c  == m[k + 1]
        L0 == \A i \in 1..k : m[i] = 0
    IN { 10 * q + d : d \in { e \in 0..10 :
            c >= 2 * e - 1 /\ (c <= 2 * e \/ (c = 2 * e + 1 /\ L0)) } }

\* One decimal digit and the unit: t tenths of the k-th unit after the byte.
Tenths(t, k) ==
    ToString(t \div 10) \o "." \o ToString(t % 10) \o " "
        \o <<"K", "M", "G", "T", "P", "E">>[k] \o "B"

\* The specified reference: "<b> B" below 1024; otherwise the byte count
\* divided by 1024^divisions shown with one decimal digit, and the letter of
\* K, M, G, T, P, E indexed by divisions - 1.  Where the quotient lies half
\* way between two tenths the reference admits both.
RefHumanReadable(b) ==
    LET k == RefDivisions(b) IN
    IF k = 0 THEN {ToString(b[1]) \o " B"}
    ELSE { Tenths(t, k) : t \in NearestTenths(b, k) }

\* The reference with the last decimal digit one up or down.
RefWithinOneTenth(b) ==
    LET k == RefDivisions(b) IN
    IF k = 0 THEN {ToString(b[1]) \o " B"}
    ELSE { Tenths(t + d, k) : t \in NearestTenths(b, k), d \in {-1, 0, 1} }

\* The byte count is below 2^53 = 8 * 1024^5.
Below2To53(b) == b[7] = 0 /\ b[6] < 8

\* C10 as the spec states it: humanReadableSize agrees with the specified
\* reference for every byte count: "<b> B" below 1024, otherwise the unit
\* letter indexed by the number of divisions minus one and b / 1024^divisions
\* with one decimal digit; 1536 gives "1.5 KB" and 1073741824 gives "1.0 GB".
C10_HumanReadableAgreesWithReference ==
    hrOut # NotCalled =>
        /\ hrOut \in RefHumanReadable(hrSize)
        /\ hrSize = U64(1536) => hrOut = "1.5 KB"
        /\ hrSize = U64(1073741824) => hrOut = "1.0 GB"
        /\ hrSize = U64(1023) => hrOut = "1023 B"

\* C10 amended: humanReadableSize agrees with the specified reference for
\* every byte count below 2^53 (the byte counts a float64 holds exactly
\* among them); for every byte count the unit letter is that of the
\* reference and the number shown is the reference's or one tenth beside it;
\* 1536 gives "1.5 KB", 1073741824 gives "1.0 GB" and 1023 gives "1023 B".
C10_AgreesUpToFloat64Conversion ==
    hrOut # NotCalled =>
        /\ Below2To53(hrSize) => hrOut \in RefHumanReadable(hrSize)
        /\ hrOut \in RefWithinOneTenth(hrSize)
        /\ hrSize = U64(1536) => hrOut = "1.5 KB"
        /\ hrSize = U64(1073741824) => hrOut = "1.0 GB"
        /\ hrSize = U64(1023) => hrOut = "1023 B"

\* C10 witness: the call on 2^53 + 2^48 + 1 bytes, 8.25000000000000089 PB,
\* has returned "8.2 PB".
C10_Witness == hrSize = <<1, 0, 0, 0, 256, 8, 0>> /\ hrOut = "8.2 PB"

(***************************************************************************)
(* The concurrent server: net/http runs every request in its own           *)
(* goroutine, so the steps of NumReqs handler calls interleave with each   *)
(* other and with those of the operating system, for each of the three     *)
(* programs.                                                               *)
(***************************************************************************)
InitConc ==
    /\ \E c \in Configs :
         /\ impl = c.impl
         /\ ignoreTypes = c.ignoreTypes
         /\ ignoreDisks = c.ignoreDisks
         /\ hostProc = c.hostProc
         /\ partitions \in InitialPartitions(c.impl)
         /\ usage \in AnswerTables(QueriedPaths(c.impl, c.hostProc, partitions),
                                   ConcAnswers)
    /\ partErr = FALSE
    /\ diskInfos = NilSlice
    /\ heap = <<>>
    /\ wild = FALSE
    /\ resp = Idle
    /\ queries = <<>>
    /\ reqs = [r \in 1..NumReqs |-> IdleReq]
    /\ hrSize = U64(0)
    /\ hrOut = ""

NextConc ==
    \/ \E r \in 1..NumReqs :
        \/ ReqEnumerate(r)
        \/ ReqReset(r)
        \/ ReqIterate(r)
        \/ ReqStore(r)
        \/ ReqRender(r)
        \/ ReqRange(r)
    \/ EnumerationFails
    \/ EnumerationRecovers
    \/ Unmount

SpecConc == InitConc /\ [][NextConc]_vars

\* C8: under every interleaving of concurrent handler calls, each call
\* renders the record list it would render when run alone against the
\* operating system state it was answered from: no record lost, duplicated
\* or taken from another call, no panic and no slice whose words or
\* elements another call wrote.
C8_ConcurrentCallsRenderAloneResult ==
    \A r \in 1..NumReqs :
        reqs[r].pc = "done" =>
            \A o \in Responses(reqs[r].out) : o = RunAlone(reqs[r].perr, reqs[r].parts)

(***************************************************************************)
(* The percentage of a record against its own byte counts.                 *)
(***************************************************************************)
\* The percentage q (a fraction <<n, d>> or an int <<n>>) is exactly
\* used / total * 100.
IsUsedOverTotal(q, used, total) ==
    IF Len(q) = 2 THEN q[1] * total = 100 * used * q[2]
    ELSE Len(q) = 1 /\ q[1] * total = 100 * used

\* C11: the usedPercent of every rendered record is (used / total) * 100 of
\* that record's own total and used byte counts, without rounding, whatever
\* the free byte count the usage query reported (gatherDiskInfo of part_000,
\* FetchDiskInfo of main.go).
C11_UsedPercentFromTotalAndUsed ==
    \A c \in Calls :
        (impl \in {"part_000", "main.go"} /\ c.resp.status = "ok") =>
            \A j \in 1..Len(c.resp.DiskInfos) :
                LET r == c.resp.DiskInfos[j] IN
                r.Size > 0 => IsUsedOverTotal(r.UsedPercent, r.Used, r.Size)

(***************************************************************************)
(* The path of the usage query against the mount point.                    *)
(***************************************************************************)
\* The mount points of the partitions that have one, in enumeration order.
MountpointsOf(parts) ==
    LET mounted == SelectSeq(parts, LAMBDA p : p.Mountpoint # "")
    IN [k \in 1..Len(mounted) |-> mounted[k].Mountpoint]

\* Record r carries the byte counts of the filesystem mounted at the mount
\* point of partition p.
OfOwnMount(r, p) ==
    /\ ~Usage(usage, p.Mountpoint).err
    /\ r.Size = Usage(usage, p.Mountpoint).stat.Total
    /\ r.Used = Usage(usage, p.Mountpoint).stat.Used
    /\ r.Free = Usage(usage, p.Mountpoint).stat.Free

\* C12: a collection call of part_000 issues its usage queries for exactly
\* the mount point paths of the partitions that have one, and the size, used
\* and free values of every record are those of the filesystem mounted at
\* the mount point of the record's partition, for every hostProc including
\* the default.
C12_UsageQueriedAtMountpoint ==
    \A c \in Calls :
        (impl = "part_000" /\ ~c.perr) =>
            /\ queries = MountpointsOf(c.parts)
            /\ \A j \in 1..Len(c.resp.DiskInfos) :
                  \E i \in 1..Len(c.parts) :
                      /\ c.parts[i].Device = c.resp.DiskInfos[j].Device
                      /\ OfOwnMount(c.resp.DiskInfos[j], c.parts[i])

(***************************************************************************)
(* The exponent and the divisor of the formatter.                          *)
(***************************************************************************)
\* The largest uint64, 2^64 - 1.
MaxUint64 == <<1023, 1023, 1023, 1023, 1023, 1023, 15>>

\* C13: for every uint64 byte count humanReadableSize returns without a
\* panic, with the unit exponent in 0..5 (an index into "KMGTPE") and with
\* the int64 divisor equal to 1024^(exp + 1), at most 1024^6 = 2^60: the
\* divisor never overflows and is never zero or negative.
C13_ExponentAndDivisorInRange ==
    hrOut # NotCalled =>
        /\ hrOut # Panic
        /\ SubSeq(hrOut, 1, 1) # "+"
        /\ ~BelowUnit(hrSize) =>
              LET r == hrLoop(DivUnit(hrSize), U64(unit), 0) IN
              /\ r.exp \in 0..5
              /\ UnitPower(r.div) = r.exp + 1
              /\ r.div[7] < 8

\* C13 witness: the call on 2^64 - 1 has returned, with the last letter.
C13_Witness == hrSize = MaxUint64 /\ hrOut = "16.0 EB"

====
